---- MODULE Spec2Model ----
(***************************************************************************)
(* A model of fn/routes.go: the `fn routes` commands create, update,       *)
(* config set and config unset, and the fetch / merge / replace sequence   *)
(* of routesCmd.patchRoute.                                                *)
(*                                                                         *)
(* Go values are represented as follows.                                   *)
(*   - a string that the code indexes or slices (a config or header key,   *)
(*     a --headers literal) is a sequence of one-character strings, so     *)
(*     that k[0] is k[1] here and k[1:] is Tail(k); every other string is  *)
(*     a TLA+ string;                                                      *)
(*   - a pointer or a map that may be nil is a sequence of length 0 (nil)  *)
(*     or 1 (the value);                                                   *)
(*   - a map is a function from its keys to its values;                    *)
(*   - a time.Duration is a number of milliseconds.                        *)
(***************************************************************************)
EXTENDS Integers, Sequences, FiniteSets, TLC

VARIABLES
    remote,   \* the route as the server holds it: <<>> (none) or <<route>>
    ff,       \* the func file of the working directory, as loadFuncfile sees it
    pc,       \* "start" | "fetch" | "submit" | "done"
    in,       \* the command line of the invocation: command, arguments, flags
    delta,    \* patchRoute's argument r: <<>> (nil) or <<route>>
    resp,     \* resp.Payload.Route inside patchRoute: <<>> before the fetch
    calls,    \* the API calls issued so far, in order
    err       \* "" while running, "nil" for a nil error, else the error text

vars == <<remote, ff, pc, in, delta, resp, calls, err>>

----------------------------------------------------------------------------
(* Bounds of the model. *)

\* Longest run of '-' in front of a key name.
MaxDashes == 1
\* Most entries of a fetched config/headers map and of a delta map.
MaxEntries == 2

----------------------------------------------------------------------------
(* Program constants. *)

\* time.Second, in the model's unit (milliseconds).
Second == 1000
\* create's flag defaults.
DefaultMemory == 128
DefaultMaxConcurrency == 1
DefaultTimeout == 30 * Second
DefaultType == "sync"

----------------------------------------------------------------------------
(* Go maps. *)

EmptyMap == [x \in {} |-> ""]

MapSet(m, k, v) == [x \in (DOMAIN m) \cup {k} |-> IF x = k THEN v ELSE m[x]]

MapDelete(m, k) == [x \in (DOMAIN m) \ {k} |-> m[x]]

\* The orders in which a `for k, v := range m` may visit the keys of m:
\* Go leaves the iteration order of a map unspecified.
RangeOrders(m) ==
    LET n == Cardinality(DOMAIN m)
    IN  {s \in [1..n -> DOMAIN m] : \A i, j \in 1..n : i # j => s[i] # s[j]}

----------------------------------------------------------------------------
(* models.Route *)

Route(path, image, memory, type, config, headers, format, maxc, timeout) ==
    [Path |-> path, Image |-> image, Memory |-> memory, Type |-> type,
     Config |-> config, Headers |-> headers, Format |-> format,
     MaxConcurrency |-> maxc, Timeout |-> timeout]

----------------------------------------------------------------------------
(* routesCmd.patchRoute: the fetch (GetAppsAppRoutesRoute). *)

\* What the fetch can answer: 200 with the route when the server holds one,
\* 404 when it holds none, and in either case some other failure (a 5xx
\* answer, a transport error).
FetchOutcomes(rem) == (IF rem = <<>> THEN {"notfound"} ELSE {"ok"}) \cup {"other"}

\* The error patchRoute returns for a failed fetch.
fetchError(status) ==
    IF status = "notfound" THEN "error: remote message" ELSE "unexpected error"

afterFetchRetry(status) == IF status = "ok" THEN "submit" ELSE "fetch"

\* Where patchRoute goes after the fetch: on to the merge and the replace
\* call, or out through `return` when err != nil.
afterFetch(status) == IF status = "ok" THEN "submit" ELSE "done"

----------------------------------------------------------------------------
(* routesCmd.patchRoute: the merge. *)

\* if resp.Payload.Route.Config == nil { ... = map[string]string{} }, and the
\* same for Headers.
normalise(r) ==
    [r EXCEPT !.Config = IF @ = <<>> THEN <<EmptyMap>> ELSE @,
              !.Headers = IF @ = <<>> THEN <<EmptyMap>> ELSE @]

clearPathKept(r) == r

\* resp.Payload.Route.Path = ""
clearPath(r) == [r EXCEPT !.Path = ""]

\* k[0] of an empty key: index out of range, a run-time panic.
indexPanics(k) == k = <<>>

configStepUnstripped(cur, k, v) ==
    IF k[1] = "-" THEN MapDelete(cur, k) ELSE MapSet(cur, k, v)

configStepStripBoth(cur, k, v) ==
    IF k[1] = "-" THEN MapDelete(cur, Tail(k)) ELSE MapSet(cur, Tail(k), v)

\* The body of `for k, v := range r.Config`.
configStep(cur, k, v) ==
    IF k[1] = "-" THEN MapDelete(cur, Tail(k)) ELSE MapSet(cur, k, v)

\* The body of `for k, v := range r.Headers`: the deletion passes k itself
\* to delete(), the '-' still in front.
headersStep(cur, k, v) ==
    IF k[1] = "-" THEN MapDelete(cur, k) ELSE MapSet(cur, k, v)

\* `for k, v := range r.Config { ... }` visiting the keys in `order`.
\* [panic |-> TRUE] when a visited key is empty.
RECURSIVE rangeConfig(_, _, _)
rangeConfig(cur, d, order) ==
    IF order = <<>> THEN [panic |-> FALSE, m |-> cur]
    ELSE IF indexPanics(Head(order)) THEN [panic |-> TRUE, m |-> cur]
    ELSE rangeConfig(configStep(cur, Head(order), d[Head(order)]), d, Tail(order))

RECURSIVE rangeHeaders(_, _, _)
rangeHeaders(cur, d, order) ==
    IF order = <<>> THEN [panic |-> FALSE, m |-> cur]
    ELSE IF indexPanics(Head(order)) THEN [panic |-> TRUE, m |-> cur]
    ELSE rangeHeaders(headersStep(cur, Head(order), d[Head(order)]), d, Tail(order))

\* The six `if r.X ... { resp.Payload.Route.X = r.X }` of patchRoute.
mergeScalars(cur, r) ==
    [cur EXCEPT
        !.Image = IF r.Image # "" THEN r.Image ELSE @,
        !.Format = IF r.Format # "" THEN r.Format ELSE @,
        !.Type = IF r.Type # "" THEN r.Type ELSE @,
        !.MaxConcurrency = IF r.MaxConcurrency > 0 THEN r.MaxConcurrency ELSE @,
        !.Memory = IF r.Memory > 0 THEN r.Memory ELSE @,
        !.Timeout = IF r.Timeout # <<>> THEN r.Timeout ELSE @]

\* The orders the two range loops may take for the delta d (<<>>: nil).
ConfigOrders(d) ==
    IF d = <<>> \/ d[1].Config = <<>> THEN {<<>>} ELSE RangeOrders(d[1].Config[1])

HeaderOrders(d) ==
    IF d = <<>> \/ d[1].Headers = <<>> THEN {<<>>} ELSE RangeOrders(d[1].Headers[1])

\* `if r != nil { ... }`: the fetched route cur (normalised, path cleared)
\* with the delta d merged in, the loops visiting the keys in the orders co
\* and ho. [panic |-> TRUE] when a loop panics.
applyDelta(cur, d, co, ho) ==
    IF d = <<>> THEN [panic |-> FALSE, r |-> cur]
    ELSE LET r  == d[1]
             c  == IF r.Config = <<>> THEN [panic |-> FALSE, m |-> cur.Config[1]]
                   ELSE rangeConfig(cur.Config[1], r.Config[1], co)
             h  == IF r.Headers = <<>> THEN [panic |-> FALSE, m |-> cur.Headers[1]]
                   ELSE rangeHeaders(cur.Headers[1], r.Headers[1], ho)
         IN  IF c.panic \/ h.panic THEN [panic |-> TRUE, r |-> cur]
             ELSE [panic |-> FALSE,
                   r |-> mergeScalars([cur EXCEPT !.Config = <<c.m>>,
                                                  !.Headers = <<h.m>>], r)]

----------------------------------------------------------------------------
(* routesCmd.patchRoute: the replace call (PatchAppsAppRoutesRoute). *)

ReplaceOutcomes == {"ok", "badrequest", "notfound", "other"}

\* The error patchRoute returns after the replace call.
replaceError(status) ==
    IF status = "ok" THEN "nil"
    ELSE IF status \in {"badrequest", "notfound"} THEN "error: remote message"
    ELSE "unexpected error"

----------------------------------------------------------------------------
(* patchRoute as two steps, one per API call. *)

patchRouteFetch ==
    /\ pc = "fetch"
    /\ \E st \in FetchOutcomes(remote) :
         /\ calls' = Append(calls, [op |-> "fetch", status |-> st, body |-> <<>>])
         /\ pc' = afterFetch(st)
         /\ resp' = IF st = "ok" THEN remote ELSE <<>>
         /\ err' = IF afterFetch(st) = "done" THEN fetchError(st) ELSE err
    /\ UNCHANGED <<remote, ff, in, delta>>

patchRouteSubmit ==
    /\ pc = "submit"
    /\ \E co \in ConfigOrders(delta), ho \in HeaderOrders(delta), st \in ReplaceOutcomes :
         LET merged == applyDelta(clearPath(normalise(resp[1])), delta, co, ho)
         IN  IF merged.panic
             THEN /\ err' = "panic"
                  /\ resp' = <<>>
                  /\ calls' = calls
             ELSE /\ err' = replaceError(st)
                  /\ resp' = <<merged.r>>
                  /\ calls' = Append(calls, [op |-> "replace", status |-> st,
                                             body |-> <<merged.r>>])
    /\ pc' = "done"
    /\ UNCHANGED <<remote, ff, in, delta>>

----------------------------------------------------------------------------
(* Keys and maps of the model. *)

KeyNames == {<<>>, <<"a">>, <<"b">>}

Dashes(n) == [i \in 1..n |-> "-"]

\* "", "a", "b", and each with up to MaxDashes '-' in front.
Keys == {Dashes(n) \o nm : n \in 0..MaxDashes, nm \in KeyNames}

\* The maps from at most n keys of K to values of V.
MapsOver(K, V, n) ==
    UNION {[S -> V] : S \in {T \in SUBSET K : Cardinality(T) <= n}}

\* nil, or a map.
Nilable(maps) == {<<>>} \cup {<<m>> : m \in maps}

----------------------------------------------------------------------------
(* The environment: the func file on disk and the route on the server. *)

\* What loadFuncfile finds: kind "ok" (a func file, with its optional
\* fields), "notfound" (a *notFoundError) or "error" (any other error).
FuncFile(kind, name, format, maxc, timeout, path) ==
    [kind |-> kind, name |-> name, Format |-> format, maxConcurrency |-> maxc,
     Timeout |-> timeout, path |-> path]

NoFuncFile == FuncFile("notfound", "", <<>>, <<>>, <<>>, <<>>)

\* A route as the server returns it with every field at its zero value.
BareRoute == Route("/p", "", 0, "", <<>>, <<>>, "", 0, <<>>)

\* A route with every field set.
FullRoute ==
    Route("/p", "img", 128, "sync",
          <<[k \in {<<"a">>, <<"b">>} |-> "1"]>>,
          <<[k \in {<<"a">>} |-> <<"1">>]>>,
          "http", 1, <<30>>)

\* The command line: the command, its positional arguments and its flags
\* (a flag the user did not give is <<>>).
NoFlags ==
    [format |-> <<>>, maxc |-> <<>>, timeout |-> <<>>, memory |-> <<>>,
     type |-> <<>>, config |-> EmptyMap, headers |-> <<>>]

Input(cmd, args, flags) == [cmd |-> cmd, args |-> args, flags |-> flags]

----------------------------------------------------------------------------
(* patchRoute on its own: every delta of a bounded set against every      *)
(* fetched route of a bounded set.                                         *)

ZeroRoute == Route("", "", 0, "", <<>>, <<>>, "", 0, <<>>)

\* Deltas that differ in their scalar fields.
ScalarDeltas ==
    {Route("", im, me, ty, <<>>, <<>>, fo, mc, to) :
        im \in {"", "img2"}, me \in {-1, 0, 256}, ty \in {"", "async"},
        fo \in {"", "json"}, mc \in {-1, 0, 3}, to \in {<<>>, <<0>>, <<45>>}}

FetchedConfigs == Nilable(MapsOver(Keys, {"1"}, MaxEntries))
DeltaConfigs   == Nilable(MapsOver(Keys, {"2"}, MaxEntries))
FetchedHeaders == Nilable(MapsOver(Keys, {<<"1">>}, MaxEntries))
DeltaHeaders   == Nilable(MapsOver(Keys, {<<"2", "3">>}, MaxEntries))

InitPatchCommon ==
    /\ ff = NoFuncFile
    /\ pc = "fetch"
    /\ in = Input("patchRoute", <<>>, NoFlags)
    /\ resp = <<>>
    /\ calls = <<>>
    /\ err = ""

InitScalars ==
    /\ remote \in {<<>>, <<BareRoute>>, <<FullRoute>>}
    /\ delta \in {<<>>} \cup {<<d>> : d \in ScalarDeltas}

InitConfig ==
    /\ remote \in {<<[FullRoute EXCEPT !.Config = c]>> : c \in FetchedConfigs}
    /\ delta \in {<<[ZeroRoute EXCEPT !.Config = c]>> : c \in DeltaConfigs}

InitHeaders ==
    /\ remote \in {<<[FullRoute EXCEPT !.Headers = h]>> : h \in FetchedHeaders}
    /\ delta \in {<<[ZeroRoute EXCEPT !.Headers = h]>> : h \in DeltaHeaders}

InitPatch == InitPatchCommon /\ (InitScalars \/ InitConfig \/ InitHeaders)

NextPatch == patchRouteFetch \/ patchRouteSubmit

SpecPatch == InitPatch /\ [][NextPatch]_vars

----------------------------------------------------------------------------
(* The command line (urfave/cli) and the func file. *)

\* c.Args().Get(i): the i-th positional argument, "" when there is none.
Get(args, i) == IF i + 1 <= Len(args) THEN args[i + 1] ELSE ""

\* c.String(name), c.Int(name), c.Duration(name), ...: the flag's value when
\* the user gave the flag, the flag's declared Value otherwise.
flagValue(opt, default) == IF opt = <<>> THEN default ELSE opt[1]

\* int64(timeout.Seconds()): whole seconds, truncated toward zero.
Seconds(d) == IF d >= 0 THEN d \div Second ELSE -((-d) \div Second)

\* ff.FullName(): the image name the func file gives.
FullName(f) == f.name

\* extractEnvConfig(c.StringSlice("config")): the KEY=VALUE flags as a map,
\* never nil.
extractEnvConfig(config) == <<config>>

\* strings.Split(s, sep) for a one-character separator.
RECURSIVE Split(_, _)
Split(s, sep) ==
    IF \A i \in 1..Len(s) : s[i] # sep THEN <<s>>
    ELSE LET i == CHOOSE j \in 1..Len(s) :
                      s[j] = sep /\ \A l \in 1..(j - 1) : s[l] # sep
         IN  <<SubSeq(s, 1, i - 1)>> \o Split(SubSeq(s, i + 1, Len(s)), sep)

\* update's loop over c.StringSlice("headers"): parts[1] of a literal that
\* holds no '=' is out of range, a run-time panic.
RECURSIVE parseHeaders(_, _)
parseHeaders(headers, literals) ==
    IF literals = <<>> THEN [panic |-> FALSE, m |-> headers]
    ELSE LET parts == Split(Head(literals), "=")
         IN  IF Len(parts) < 2 THEN [panic |-> TRUE, m |-> headers]
             ELSE parseHeaders(MapSet(headers, parts[1], Split(parts[2], ";")),
                               Tail(literals))

\* The outcome of a command's own work, before any API call: an error (or a
\* panic) to end with, or the route to send.
Fail(msg) == [err |-> msg, route |-> <<>>]
Send(r) == [err |-> "", route |-> <<r>>]

----------------------------------------------------------------------------
(* routesCmd.create *)

createValidateImageOnly(route, image) ==
    IF image = "" THEN "error: function image name is missing" ELSE ""

\* if route == "" { return ... }  if image == "" { return ... }
createValidate(route, image) ==
    IF route = "" THEN "error: route path is missing"
    ELSE IF image = "" THEN "error: function image name is missing"
    ELSE ""

\* create up to its API call, for the arguments args, the flags fl and the
\* func file f.
createResolve(args, fl, f) ==
    IF Len(args) < 2
    THEN Fail("error: routes listing takes at least two arguments: an app name and a path")
    ELSE
    LET loads == Get(args, 2) = ""    \* the func file is read only then
    IN  IF loads /\ f.kind = "notfound"
        THEN Fail("error: image name is missing or no function file found")
        ELSE IF loads /\ f.kind = "error" THEN Fail("func file error")
        ELSE
        LET image    == IF loads THEN FullName(f) ELSE Get(args, 2)
            ffFormat == IF loads /\ f.Format # <<>> THEN f.Format[1] ELSE ""
            ffMaxC   == IF loads /\ f.maxConcurrency # <<>>
                        THEN f.maxConcurrency[1] ELSE 0
            ffTimeout == IF loads /\ f.Timeout # <<>> THEN f.Timeout[1] ELSE 0
            route    == IF loads /\ Get(args, 1) = "" /\ f.path # <<>>
                        THEN f.path[1] ELSE Get(args, 1)
            flFormat == flagValue(fl.format, "")
            flMaxC   == flagValue(fl.maxc, DefaultMaxConcurrency)
            flTimeout == flagValue(fl.timeout, DefaultTimeout)
            format   == IF flFormat # "" THEN flFormat ELSE ffFormat
            maxC     == IF flMaxC > 0 THEN flMaxC ELSE ffMaxC
            timeout  == IF flTimeout > 0 THEN flTimeout ELSE ffTimeout
        IN  IF createValidate(route, image) # ""
            THEN Fail(createValidate(route, image))
            ELSE Send(Route(route, image,
                            flagValue(fl.memory, DefaultMemory),
                            flagValue(fl.type, DefaultType),
                            extractEnvConfig(fl.config), <<>>,
                            format, maxC, <<Seconds(timeout)>>))

CreateOutcomes == {"ok", "badrequest", "conflict", "other"}

\* The error create returns after PostAppsAppRoutes.
createError(status) ==
    IF status = "ok" THEN "nil"
    ELSE IF status \in {"badrequest", "conflict"} THEN "error: remote message"
    ELSE "unexpected error"

----------------------------------------------------------------------------
(* routesCmd.update *)

updateLoadLenient(image, f) ==
    IF f.kind = "error" THEN "func file error" ELSE ""

\* ff, err := loadFuncfile() and the `if err != nil` after it: the error
\* update returns there, "" when it goes on.
updateLoad(image, f) ==
    IF f.kind = "notfound" /\ image = ""
    THEN "error: image name is missing or no function file found"
    ELSE IF f.kind = "error" THEN "func file error"
    ELSE ""

\* if image != "" { image = ff.FullName() }
updateImage(image, f) == IF image # "" THEN FullName(f) ELSE image

\* update up to its call of patchRoute. When loadFuncfile found no file, ff
\* is nil and the first use of ff (ff.FullName() or ff.Format) panics.
updateResolve(args, fl, f) ==
    IF Len(args) < 2
    THEN Fail("error: route update takes at least two arguments: an app name and a path")
    ELSE IF updateLoad(Get(args, 2), f) # "" THEN Fail(updateLoad(Get(args, 2), f))
    ELSE IF f.kind # "ok" THEN Fail("panic")
    ELSE
    LET image    == updateImage(Get(args, 2), f)
        ffFormat == IF f.Format # <<>> THEN f.Format[1] ELSE ""
        ffMaxC   == IF f.maxConcurrency # <<>> THEN f.maxConcurrency[1] ELSE 0
        ffTimeout == IF f.Timeout # <<>> THEN f.Timeout[1] ELSE 0
        route    == IF Get(args, 1) = "" /\ f.path # <<>>
                    THEN f.path[1] ELSE Get(args, 1)
        flFormat == flagValue(fl.format, "")
        flMaxC   == flagValue(fl.maxc, 0)
        flTimeout == flagValue(fl.timeout, 0)
        format   == IF flFormat # "" THEN flFormat ELSE ffFormat
        maxC     == IF flMaxC > 0 THEN flMaxC ELSE ffMaxC
        timeout  == IF flTimeout > 0 THEN flTimeout ELSE ffTimeout
        headers  == parseHeaders(EmptyMap, fl.headers)
    IN  IF route = "" THEN Fail("error: route path is missing")
        ELSE IF headers.panic THEN Fail("panic")
        ELSE Send(Route("", image,
                        flagValue(fl.memory, 0),
                        flagValue(fl.type, ""),
                        extractEnvConfig(fl.config), <<headers.m>>,
                        format, maxC, <<Seconds(timeout)>>))

----------------------------------------------------------------------------
(* routesCmd.configSet, routesCmd.configUnset *)

configSetResolve(args) ==
    IF Len(args) < 4
    THEN Fail("error: route configuration updates tak four arguments: an app name, a path, a key and a value")
    ELSE Send([ZeroRoute EXCEPT
                 !.Config = <<[k \in {Get(args, 2)} |-> Get(args, 3)]>>])

configUnsetResolve(args) ==
    IF Len(args) < 3
    THEN Fail("error: route configuration updates take three arguments: an app name, a path and a key")
    ELSE Send([ZeroRoute EXCEPT
                 !.Config = <<[k \in {<<"-">> \o Get(args, 2)} |-> ""]>>])

----------------------------------------------------------------------------
(* The commands as actions. An invocation runs one command. *)

\* Positional arguments of create and update: app, path, image.
RouteArgs ==
    {<<"app">>} \cup {<<"app", r>> : r \in {"", "/p"}}
                \cup {<<"app", r, "img">> : r \in {"", "/p"}}

Opt(S) == {<<>>} \cup {<<x>> : x \in S}

CreateFlags ==
    [format : Opt({"json"}), maxc : Opt({3}), timeout : Opt({45 * Second}),
     memory : Opt({256}), type : Opt({"async"}),
     config : {EmptyMap, [k \in {<<"a">>} |-> "2"]},
     headers : {<<>>}]

\* --headers literals: "a=2;3", "-a=" and "a", which holds no '='.
HeaderLiterals == {<<"a", "=", "2", ";", "3">>, <<"-", "a", "=">>, <<"a">>}

UpdateFlags ==
    [format : Opt({"json"}), maxc : Opt({3}), timeout : Opt({45 * Second}),
     memory : Opt({256}), type : Opt({"async"}),
     config : {EmptyMap, [k \in {<<"a">>} |-> "2"]},
     headers : {<<>>} \cup {<<h>> : h \in HeaderLiterals}]

ConfigSetArgs ==
    {<<"app", "/p", k>> : k \in Keys} \cup {<<"app", "/p", k, "2">> : k \in Keys}

ConfigUnsetArgs ==
    {<<"app", "/p">>} \cup {<<"app", "/p", k>> : k \in Keys}

FuncFiles ==
    {FuncFile("notfound", "", <<>>, <<>>, <<>>, <<>>),
     FuncFile("error", "", <<>>, <<>>, <<>>, <<>>)}
    \cup {FuncFile("ok", nm, fo, mc, to, pa) :
             nm \in {"", "ffimg"}, fo \in Opt({"http"}), mc \in Opt({2}),
             to \in Opt({60 * Second + Second \div 2}), pa \in Opt({"/ff"})}

create ==
    /\ pc = "start"
    /\ \E args \in RouteArgs, fl \in CreateFlags :
         LET r == createResolve(args, fl, ff)
         IN  /\ in' = Input("create", args, fl)
             /\ IF r.err # ""
                THEN /\ err' = r.err
                     /\ calls' = calls
                ELSE \E st \in CreateOutcomes :
                       /\ err' = createError(st)
                       /\ calls' = Append(calls, [op |-> "create", status |-> st,
                                                  body |-> r.route])
    /\ pc' = "done"
    /\ UNCHANGED <<remote, ff, delta, resp>>

\* A command that ends in `err = a.patchRoute(appName, route, patchRoute)`
\* and returns patchRoute's error.
callPatchRoute(cmd, args, fl, r) ==
    /\ in' = Input(cmd, args, fl)
    /\ IF r.err # ""
       THEN /\ err' = r.err
            /\ pc' = "done"
            /\ delta' = delta
       ELSE /\ err' = err
            /\ pc' = "fetch"
            /\ delta' = r.route
    /\ UNCHANGED <<remote, ff, resp, calls>>

update ==
    /\ pc = "start"
    /\ \E args \in RouteArgs, fl \in UpdateFlags :
         callPatchRoute("update", args, fl, updateResolve(args, fl, ff))

configSet ==
    /\ pc = "start"
    /\ \E args \in ConfigSetArgs :
         callPatchRoute("configSet", args, NoFlags, configSetResolve(args))

configUnset ==
    /\ pc = "start"
    /\ \E args \in ConfigUnsetArgs :
         callPatchRoute("configUnset", args, NoFlags, configUnsetResolve(args))

Init ==
    /\ remote \in {<<>>, <<FullRoute>>}
    /\ ff \in FuncFiles
    /\ pc = "start"
    /\ in = Input("", <<>>, NoFlags)
    /\ delta = <<>>
    /\ resp = <<>>
    /\ calls = <<>>
    /\ err = ""

Next ==
    \/ create
    \/ update
    \/ configSet
    \/ configUnset
    \/ patchRouteFetch
    \/ patchRouteSubmit

Spec == Init /\ [][Next]_vars

----------------------------------------------------------------------------
(* What the claims speak of. *)

\* The replace calls issued so far.
ReplaceCalls == {i \in DOMAIN calls : calls[i].op = "replace"}

FetchCalls == {i \in DOMAIN calls : calls[i].op = "fetch"}

\* A key that carries the deletion marker.
IsDeletion(k) == k # <<>> /\ k[1] = "-"

\* A delta map that holds no key k together with its deletion marker '-k'.
NoConflict(d) == \A k \in DOMAIN d : IsDeletion(k) => Tail(k) \notin DOMAIN d

\* The merge of section 4.1, stated on the whole map: the keys the delta
\* deletes are gone, the keys it sets hold the delta's values, the others
\* hold the current values.
RefMerge(cur, d) ==
    LET sets    == {k \in DOMAIN d : ~IsDeletion(k)}
        deleted == {Tail(k) : k \in {x \in DOMAIN d : IsDeletion(x)}}
    IN  [k \in ((DOMAIN cur) \ deleted) \cup sets |->
            IF k \in sets THEN d[k] ELSE cur[k]]

\* A nil map read as the empty map.
MapOf(opt) == IF opt = <<>> THEN EmptyMap ELSE opt[1]

\* The three clauses of the merge contract, for the merged map p.
MergeContract(cur, d, p) ==
    /\ \A k \in DOMAIN d : ~IsDeletion(k) => k \in DOMAIN p /\ p[k] = d[k]
    /\ \A k \in DOMAIN d : IsDeletion(k) => Tail(k) \notin DOMAIN p
    /\ \A k \in DOMAIN cur :
          (k \notin DOMAIN d /\ (<<"-">> \o k) \notin DOMAIN d)
              => k \in DOMAIN p /\ p[k] = cur[k]
    /\ DOMAIN p \subseteq (DOMAIN cur) \cup (DOMAIN d)

\* C1, as claimed: for every fetched config and every config delta, the
\* config of the submitted route satisfies the merge contract: every delta
\* key without '-' maps to the delta's value, for every delta key '-k' the
\* key k is absent, every untouched fetched key keeps its value.
C1_MergeEveryDelta ==
    \A i \in ReplaceCalls :
        (delta # <<>> /\ delta[1].Config # <<>>) =>
            MergeContract(MapOf(remote[1].Config), delta[1].Config[1],
                          calls[i].body[1].Config[1])

\* C1, amended: the same for every config delta that holds no key together
\* with its deletion marker; the submitted config then is the reference
\* merge of the delta into the fetched config.
C1_MergeNoConflict ==
    \A i \in ReplaceCalls :
        (delta # <<>> /\ delta[1].Config # <<>> /\ NoConflict(delta[1].Config[1])) =>
            /\ MergeContract(MapOf(remote[1].Config), delta[1].Config[1],
                             calls[i].body[1].Config[1])
            /\ calls[i].body[1].Config[1]
                  = RefMerge(MapOf(remote[1].Config), delta[1].Config[1])

\* A replace call whose delta deleted a fetched config key and set another.
C1_Witness ==
    /\ ReplaceCalls # {}
    /\ delta # <<>> /\ delta[1].Config # <<>> /\ remote[1].Config # <<>>
    /\ NoConflict(delta[1].Config[1])
    /\ \E k \in DOMAIN delta[1].Config[1] :
          IsDeletion(k) /\ Tail(k) \in DOMAIN remote[1].Config[1]
    /\ \E k \in DOMAIN delta[1].Config[1] : ~IsDeletion(k)

\* C2, as claimed: the headers of the submitted route are the merge of the
\* headers delta into the fetched headers, a delta key '-k' removing the key
\* k (stated for the deltas that hold no key together with its marker).
C2_HeadersMergedLikeConfig ==
    \A i \in ReplaceCalls :
        (delta # <<>> /\ delta[1].Headers # <<>> /\ NoConflict(delta[1].Headers[1])) =>
            MergeContract(MapOf(remote[1].Headers), delta[1].Headers[1],
                          calls[i].body[1].Headers[1])

\* C6: the replace call is issued at most once and only after a successful
\* fetch; the fetch is issued at most once; no call follows a failed call.
C6_FetchThenReplaceOnce ==
    /\ Cardinality(ReplaceCalls) <= 1
    /\ Cardinality(FetchCalls) <= 1
    /\ \A i \in ReplaceCalls :
          \E j \in FetchCalls : j < i /\ calls[j].status = "ok"
    /\ \A i \in DOMAIN calls : calls[i].status # "ok" => i = Len(calls)

\* patchRoute has returned after a replace call that failed.
C6_Witness ==
    /\ pc = "done"
    /\ Len(calls) = 2
    /\ calls[1].op = "fetch" /\ calls[1].status = "ok"
    /\ calls[2].op = "replace" /\ calls[2].status = "notfound"

\* C7: in every replace call the path of the route in the payload is empty.
C7_PayloadPathEmpty ==
    \A i \in ReplaceCalls : calls[i].body[1].Path = ""

\* A replace call for a nil delta and a fetched route that has a path.
C7_Witness ==
    /\ ReplaceCalls # {}
    /\ delta = <<>>
    /\ remote[1].Path # ""

\* C9: the config merge is idempotent: for a delta that holds no key
\* together with its deletion marker, merging the delta again into the
\* submitted config, in whatever order the loop takes, changes nothing.
C9_MergeIdempotent ==
    \A i \in ReplaceCalls :
        (delta # <<>> /\ delta[1].Config # <<>> /\ NoConflict(delta[1].Config[1])) =>
            \A order \in RangeOrders(delta[1].Config[1]) :
                rangeConfig(calls[i].body[1].Config[1], delta[1].Config[1], order)
                    = [panic |-> FALSE, m |-> calls[i].body[1].Config[1]]

\* A replace call whose delta both set and deleted config keys and changed
\* the fetched config.
C9_Witness ==
    /\ ReplaceCalls # {}
    /\ delta # <<>> /\ delta[1].Config # <<>>
    /\ NoConflict(delta[1].Config[1])
    /\ Cardinality(DOMAIN delta[1].Config[1]) = MaxEntries
    /\ \E k \in DOMAIN delta[1].Config[1] : IsDeletion(k)
    /\ \E k \in DOMAIN delta[1].Config[1] : ~IsDeletion(k)
    /\ \A i \in ReplaceCalls : calls[i].body[1].Config # remote[1].Config

----------------------------------------------------------------------------
(* Claims about the commands. *)

\* The calls that carry a route to the server: create's and patchRoute's.
SendCalls == {i \in DOMAIN calls : calls[i].op \in {"create", "replace"}}

\* C3, as claimed: on update the image of the delta is the image argument
\* when one is given, and the func file's full name when none is given.
C3_ExplicitImageWins ==
    (in.cmd = "update" /\ delta # <<>>) =>
        /\ Get(in.args, 2) # "" => delta[1].Image = Get(in.args, 2)
        /\ (Get(in.args, 2) = "" /\ ff.kind = "ok") => delta[1].Image = FullName(ff)

\* C4, as claimed: an update with an app name and a route path, no image
\* argument and no func file, against a route the server holds, reaches the
\* fetch and returns no error when its calls succeed.
C4_UpdateWithoutFuncfileSucceeds ==
    (/\ in.cmd = "update" /\ pc = "done"
     /\ Len(in.args) >= 2 /\ Get(in.args, 1) # "" /\ Get(in.args, 2) = ""
     /\ ff.kind = "notfound"
     /\ remote # <<>> /\ remote[1].Image # "")
        => /\ calls # <<>>
           /\ (\A i \in DOMAIN calls : calls[i].status = "ok") => err = "nil"

\* C4, amended: such an update fails with the missing-image error and
\* issues no call when there is no func file; with a func file (whatever
\* image name it holds, and no config or headers flag) it reaches the fetch,
\* then the replace call, and returns no error when both succeed.
C4_UpdateWithoutImage ==
    (/\ in.cmd = "update" /\ pc = "done"
     /\ Len(in.args) >= 2 /\ Get(in.args, 1) # "" /\ Get(in.args, 2) = ""
     /\ remote # <<>> /\ remote[1].Image # "")
        => /\ ff.kind = "notfound" =>
                /\ err = "error: image name is missing or no function file found"
                /\ calls = <<>>
           /\ (ff.kind = "ok" /\ in.flags.headers = <<>> /\ in.flags.config = EmptyMap) =>
                /\ calls # <<>>
                /\ calls[1].op = "fetch"
                /\ calls[1].status = "ok" =>
                      /\ Len(calls) = 2 /\ calls[2].op = "replace"
                      /\ calls[2].status = "ok" => err = "nil"

\* An update without image argument and without func file has returned.
C4_Witness ==
    /\ in.cmd = "update" /\ pc = "done"
    /\ Len(in.args) >= 2 /\ Get(in.args, 1) # "" /\ Get(in.args, 2) = ""
    /\ ff.kind = "notfound"
    /\ remote # <<>> /\ remote[1].Image # ""

\* C5, as claimed, for a create that reads the func file (no image
\* argument): for format, max-concurrency and timeout the value sent is the
\* func file's when the user gave no flag and the func file defines it, and
\* the flag's when the user gave one.
C5_FlagOverFuncfile ==
    \A i \in SendCalls :
        (in.cmd = "create" /\ Get(in.args, 2) = "" /\ ff.kind = "ok") =>
            LET sent == calls[i].body[1]
            IN  /\ in.flags.format # <<>> => sent.Format = in.flags.format[1]
                /\ in.flags.maxc # <<>> => sent.MaxConcurrency = in.flags.maxc[1]
                /\ in.flags.timeout # <<>> =>
                      sent.Timeout = <<Seconds(in.flags.timeout[1])>>
                /\ (in.flags.format = <<>> /\ ff.Format # <<>>) =>
                      sent.Format = ff.Format[1]
                /\ (in.flags.maxc = <<>> /\ ff.maxConcurrency # <<>>) =>
                      sent.MaxConcurrency = ff.maxConcurrency[1]
                /\ (in.flags.timeout = <<>> /\ ff.Timeout # <<>>) =>
                      sent.Timeout = <<Seconds(ff.Timeout[1])>>

\* No func file supplies a path to the create.
NoFuncfilePath == ~(ff.kind = "ok" /\ ff.path # <<>>)

\* C8, as claimed: a create with an empty route path, no func file supplying
\* one, fails with 'route path is missing' and issues no call, whatever the
\* image argument.
C8_EmptyPathIsPathMissing ==
    (/\ in.cmd = "create" /\ pc = "done"
     /\ Len(in.args) >= 2 /\ Get(in.args, 1) = ""
     /\ NoFuncfilePath)
        => /\ err = "error: route path is missing"
           /\ calls = <<>>

\* C8, amended: such a create fails and issues no call; the error is 'route
\* path is missing' when an image argument is given or the func file loads,
\* and the func file's error when no image argument is given and the func
\* file does not load.
C8_EmptyPathFailsBeforeAnyCall ==
    (/\ in.cmd = "create" /\ pc = "done"
     /\ Len(in.args) >= 2 /\ Get(in.args, 1) = ""
     /\ NoFuncfilePath)
        => /\ calls = <<>>
           /\ err = IF Get(in.args, 2) # "" \/ ff.kind = "ok"
                    THEN "error: route path is missing"
                    ELSE IF ff.kind = "notfound"
                    THEN "error: image name is missing or no function file found"
                    ELSE "func file error"

\* A create with an empty path and an image argument has returned.
C8_Witness ==
    /\ in.cmd = "create" /\ pc = "done"
    /\ Len(in.args) >= 2 /\ Get(in.args, 1) = "" /\ Get(in.args, 2) # ""
    /\ NoFuncfilePath

\* C10, as claimed, in its particular case: an update run with no timeout
\* flag and no func file timeout leaves the route's timeout as fetched.
C10_UpdateWithoutTimeoutKeepsIt ==
    \A i \in ReplaceCalls :
        (in.cmd = "update" /\ in.flags.timeout = <<>> /\ ff.Timeout = <<>>) =>
            calls[i].body[1].Timeout = remote[1].Timeout

====
